---- MODULE Spec2Model ----
(***************************************************************************)
(* PhishGuard scanner backend (src/extension/background.js): the signal    *)
(* aggregator with its result cache, the email scorer and the two HTTP     *)
(* endpoints /scan and /scan-email, as a state machine.                    *)
(***************************************************************************)
EXTENDS Integers, Sequences, FiniteSets, TLC

(***************************************************************************)
(* JavaScript values.  A number is Num(n); NaN, null and undefined are     *)
(* values of their own, since the code tells them apart (?? null, != null, *)
(* typeof x !== 'undefined', comparisons with NaN are false).              *)
(***************************************************************************)
Num(n) == [t |-> "num", v |-> n]
NaN == [t |-> "nan", v |-> 0]
Null == [t |-> "null", v |-> 0]
Undefined == [t |-> "undefined", v |-> 0]

IsNum(x) == x.t = "num"
IsNullish(x) == x.t \in {"null", "undefined"}

\* Math.max / Math.min / + on numbers: NaN if either operand is NaN.
MathMax(a, b) == IF IsNum(a) /\ IsNum(b) THEN Num(IF a.v >= b.v THEN a.v ELSE b.v) ELSE NaN
MathMin(a, b) == IF IsNum(a) /\ IsNum(b) THEN Num(IF a.v <= b.v THEN a.v ELSE b.v) ELSE NaN
JsAdd(a, b) == IF IsNum(a) /\ IsNum(b) THEN Num(a.v + b.v) ELSE NaN
\* a >= n and a > n for a JS number a: false when a is NaN.
JsGe(a, n) == IsNum(a) /\ a.v >= n
JsGt(a, b) == IsNum(a) /\ IsNum(b) /\ a.v > b.v

(***************************************************************************)
(* Values of a JSON field read as a score.  A JSON number is kept in half  *)
(* units (RawNumber(59) is 29.5) so that Math.round has something to round.*)
(* A JSON string is either numeric ("85": Number() gives its value) or not *)
(* ("high": Number() gives NaN).                                           *)
(***************************************************************************)
RawNumber(h) == [t |-> "number", v |-> h]
RawNumericString(h) == [t |-> "numstring", v |-> h]
RawOtherString == [t |-> "string", v |-> 0]

\* Math.round of h/2: the nearest integer, a tie going up.
MathRoundHalves(h) == (h + 1) \div 2

\* Math.round(a / b) for integers a and b > 0: floor(a/b + 1/2).
MathRoundDiv(a, b) == (2 * a + b) \div (2 * b)

\* function normalizeScore(n): null for null/undefined (and for the number
\* NaN, which no JSON field holds); otherwise Number(n), rounded, clamped.
\* Number.isNaN does not coerce, so a non-numeric string passes the guard
\* and Number(n) makes it NaN, which Math.round/min/max hand through.
normalizeScore(n) ==
    IF IsNullish(n) THEN Null
    ELSE IF n.t = "string" THEN MathMax(Num(0), MathMin(Num(100), NaN))
    ELSE MathMax(Num(0), MathMin(Num(100), Num(MathRoundHalves(n.v))))

(***************************************************************************)
(* Strings.  TLC strings support Len, \o and SubSeq.                       *)
(***************************************************************************)
\* F(v), with v evaluated once and handed to F as a value.
Once(v, F(_)) == CHOOSE r \in {F(x) : x \in {v}} : TRUE
MinOf(S) == CHOOSE x \in S : \A y \in S : x <= y
MaxOf(S) == CHOOSE x \in S : \A y \in S : y <= x

\* s[i] and s.substring(i-1, j), 1-based and "" outside the string.
CharAt(s, i) == IF i \in 1..Len(s) THEN SubSeq(s, i, i) ELSE ""
Substr(s, i, j) ==
    IF i < 1 \/ i > j \/ i > Len(s) THEN ""
    ELSE SubSeq(s, i, IF j <= Len(s) THEN j ELSE Len(s))
StartsWithAt(s, i, p) == i + Len(p) - 1 <= Len(s) /\ SubSeq(s, i, i + Len(p) - 1) = p
StartsWith(s, p) == StartsWithAt(s, 1, p)
\* String.prototype.includes
Includes(s, p) == \E i \in 1..(Len(s) + 1) : StartsWithAt(s, i, p)
\* The first position of character c in s, 0 when it has none.
IndexOf(s, c) ==
    IF \E i \in 1..Len(s) : SubSeq(s, i, i) = c
    THEN CHOOSE i \in 1..Len(s) : SubSeq(s, i, i) = c /\ \A j \in 1..(i - 1) : SubSeq(s, j, j) # c
    ELSE 0

UpperChars == "ABCDEFGHIJKLMNOPQRSTUVWXYZ"
LowerChars == "abcdefghijklmnopqrstuvwxyz"
DigitChars == "0123456789"

LowerChar(c) ==
    Once(IndexOf(UpperChars, c), LAMBDA i : IF i = 0 THEN c ELSE SubSeq(LowerChars, i, i))

\* s.substring(a-1, b) with every capital replaced, by halves.
RECURSIVE lowerRange(_, _, _)
lowerRange(s, a, b) ==
    IF a > b THEN ""
    ELSE IF a = b THEN LowerChar(SubSeq(s, a, a))
    ELSE lowerRange(s, a, (a + b) \div 2) \o lowerRange(s, (a + b) \div 2 + 1, b)

\* String.prototype.toLowerCase (ASCII).
toLowerCase(s) == lowerRange(s, 1, Len(s))

\* The character classes of the patterns: [^\s/], [a-z0-9.-] and [a-z]
\* (both under the i flag), \d, and [a-z0-9._%+-] (on lowercased text).
InClass(c, class) ==
    CASE class = "token" -> IndexOf(" \t\n/", c) = 0
      [] class = "host" -> IndexOf(LowerChars \o UpperChars \o DigitChars \o ".-", c) > 0
      [] class = "letter" -> IndexOf(LowerChars \o UpperChars, c) > 0
      [] class = "digit" -> IndexOf(DigitChars, c) > 0
      [] class = "local" -> IndexOf(LowerChars \o DigitChars \o "._%+-", c) > 0

\* The length of the longest run of characters of a class, from position i.
RunLen(s, i, class) ==
    IF i < 1 \/ i > Len(s) THEN 0
    ELSE MinOf({j \in i..(Len(s) + 1) :
                    j > Len(s) \/ ~InClass(SubSeq(s, j, j), class)}) - i

(***************************************************************************)
(* new URL(s), for the strings the model uses: an http or https URL whose  *)
(* host is made of letters, digits, '.' and '-' (no port, no userinfo).    *)
(* Anything else (no scheme, an empty host, a host with other characters)  *)
(* makes new URL throw: ok is FALSE.  The parser lowercases the host.      *)
(***************************************************************************)
SchemeLen(s) ==
    IF toLowerCase(Substr(s, 1, 8)) = "https://" THEN 8
    ELSE IF toLowerCase(Substr(s, 1, 7)) = "http://" THEN 7
    ELSE 0

URL(s) ==
    Once(SchemeLen(s), LAMBDA n :
        Once(n + RunLen(s, n + 1, "host"), LAMBDA e :
            IF n > 0 /\ e > n /\ (e = Len(s) \/ IndexOf("/?#", CharAt(s, e + 1)) > 0)
            THEN [ok |-> TRUE, hostname |-> toLowerCase(Substr(s, n + 1, e))]
            ELSE [ok |-> FALSE]))

\* function isPunycode(hostname)
isPunycode(hostname) == Includes(hostname, "xn--")

\* hostname.split('.'): the labels between the dots.
split(s) ==
    Once({i \in 1..Len(s) : SubSeq(s, i, i) = "."} \cup {0, Len(s) + 1}, LAMBDA cuts :
        LET rest[i \in cuts] ==
                IF i = Len(s) + 1 THEN <<>>
                ELSE Once(MinOf({j \in cuts : j > i}), LAMBDA n :
                        <<Substr(s, i + 1, n - 1)>> \o rest[n])
        IN rest[0])

\* function hasIPInHostname(urlObj): /^(\d{1,3}\.){3}\d{1,3}$/
hasIPInHostname(hostname) ==
    Once(split(hostname), LAMBDA parts :
        /\ Len(parts) = 4
        /\ \A k \in 1..4 : /\ Len(parts[k]) \in 1..3
                           /\ RunLen(parts[k], 1, "digit") = Len(parts[k]))

\* const suspiciousTLDs
suspiciousTLDs == {"zip", "review", "country", "kim", "gq", "work", "top", "men", "party"}

(***************************************************************************)
(* anchorText.match(/https?:\/\/[^\s/]+|www\.[^\s/]+|[a-z0-9.-]+\.[a-z]{2,}/i):*)
(* the leftmost match, the alternatives tried in order at each position,   *)
(* each quantifier greedy.  MatchLenAt is the length of the match that     *)
(* starts at i, 0 when none does.                                          *)
(***************************************************************************)
MatchLenAlt1(s, i) ==
    Once(IF toLowerCase(Substr(s, i, i + 7)) = "https://" THEN 8
         ELSE IF toLowerCase(Substr(s, i, i + 6)) = "http://" THEN 7
         ELSE 0,
         LAMBDA n : IF n = 0 THEN 0
                    ELSE Once(RunLen(s, i + n, "token"),
                              LAMBDA r : IF r = 0 THEN 0 ELSE n + r))

MatchLenAlt2(s, i) ==
    IF toLowerCase(Substr(s, i, i + 3)) = "www."
    THEN Once(RunLen(s, i + 4, "token"), LAMBDA r : IF r = 0 THEN 0 ELSE 4 + r)
    ELSE 0

\* k characters for [a-z0-9.-]+, then the dot, then two letters or more:
\* the largest k that allows it.
MatchLenAlt3(s, i) ==
    Once(RunLen(s, i, "host"), LAMBDA h :
        Once({k \in 1..(h - 1) : /\ SubSeq(s, i + k, i + k) = "."
                                 /\ RunLen(s, i + k + 1, "letter") >= 2},
             LAMBDA ks : IF ks = {} THEN 0
                         ELSE MaxOf(ks) + 1 + RunLen(s, i + MaxOf(ks) + 1, "letter")))

MatchLenAt(s, i) ==
    Once(MatchLenAlt1(s, i), LAMBDA a :
        IF a > 0 THEN a
        ELSE Once(MatchLenAlt2(s, i), LAMBDA b :
                IF b > 0 THEN b ELSE MatchLenAlt3(s, i)))

\* m[0], or "" when the text has no match (m is null).
anchorMatch(s) ==
    Once({i \in 1..Len(s) : MatchLenAt(s, i) > 0}, LAMBDA starts :
        IF starts = {} THEN ""
        ELSE Once(MinOf(starts), LAMBDA i : Substr(s, i, i + MatchLenAt(s, i) - 1)))

\* m[0].replace(/^www\./i, '')
StripWww(m) ==
    IF toLowerCase(Substr(m, 1, 4)) = "www." THEN Substr(m, 5, Len(m)) ELSE m

\* Lines 93-101: the anchor-text contribution, given the target's hostname.
\* m[0].startsWith('http') is case-sensitive; a token new URL rejects is
\* swallowed by the inner catch; an empty token is falsy.
anchorToken(m) ==
    IF StartsWith(m, "http")
    THEN Once(URL(m), LAMBDA u : IF u.ok THEN u.hostname ELSE "")
    ELSE StripWww(m)

anchorContribution(anchorText, hostname) ==
    IF anchorText = "" THEN 0
    ELSE Once(anchorMatch(anchorText), LAMBDA m :
            IF m = "" THEN 0
            ELSE Once(anchorToken(m), LAMBDA token :
                    IF token # "" /\ token # hostname THEN 12 ELSE 0))

\* urlObj.hostname.split('.').pop()?.toLowerCase()
tldOf(hostname) ==
    Once(split(hostname), LAMBDA parts : toLowerCase(parts[Len(parts)]))

\* Lines 102-113, given the parsed url: punycode, IP literal, TLD, redirects
\* and the final host.
hostContribution(hostname, redirectCount, finalUrl) ==
    (IF isPunycode(hostname) THEN 10 ELSE 0)
    + (IF hasIPInHostname(hostname) THEN 12 ELSE 0)
    + Once(tldOf(hostname), LAMBDA tld : IF tld # "" /\ tld \in suspiciousTLDs THEN 8 ELSE 0)
    + (IF redirectCount >= 3
       THEN (IF 12 <= redirectCount * 3 THEN 12 ELSE redirectCount * 3) ELSE 0)
    + (IF finalUrl = "" THEN 0
       ELSE Once(URL(finalUrl), LAMBDA f : IF f.ok /\ f.hostname # hostname THEN 6 ELSE 0))

\* function heuristicsScore({ url, anchorText, redirectCount, finalUrl }).
\* An absent anchorText and a null finalUrl are "" here: both are falsy in
\* the two tests that read them.  new URL(url) throwing gives 0.
heuristicsScore(url, anchorText, redirectCount, finalUrl) ==
    Once(URL(url), LAMBDA urlObj :
        IF ~urlObj.ok THEN 0
        ELSE anchorContribution(anchorText, urlObj.hostname)
             + hostContribution(urlObj.hostname, redirectCount, finalUrl))

\* const cacheKey = `scan::${url}::${anchorText || ''}::${senderDomain || ''}`
cacheKey(url, anchorText, senderDomain) ==
    "scan::" \o url \o "::" \o anchorText \o "::" \o senderDomain

(***************************************************************************)
(* The strings requests and answers are drawn from.  The string functions  *)
(* above are evaluated once for each of them (the ...Of tables below).     *)
(***************************************************************************)
URLs ==
    {"http://192.168.1.1/login", "https://example.com/", "http://xn--pypal-4ve.top/a",
     "not a url", "https://www.example.com/"}
Anchors ==
    {"", "Click here", "www.paypal.com", "see https://Example.com/login now",
     "www.example.com"}
Senders == {"", "bank.example"}
FinalUrls == {"", "https://example.com/home", "http://evil.zip/x", "/x"}
RedirectCounts == {0, 2, 3, 5}
Headers ==
    {"",
     "Authentication-Results: spf=fail; dmarc=fail",
     "Authentication-Results: SPF=Pass; dkim=pass; dmarc=pass",
     "From: Bank <help@bank.example>\nReturn-Path: <x@evil.zip>\nspf=fail dkim=fail dmarc=fail",
     "From: Bank <help@bank.example>\nReturn-Path: <help@bank.example>\ndkim=fail",
     "Authentication-Results: mx.one; spf=fail\nAuthentication-Results: mx.two; spf=pass"}
Bodies ==
    {"", "hello",
     "URGENT: verify your account",
     "Security alert: unusual activity. Action required, confirm your identity",
     "urgent action required account suspended verify your account password expired unusual activity security alert confirm your identity"}

heuristicsScoreOf ==
    [u \in URLs |-> [a \in Anchors |-> [n \in RedirectCounts |-> [f \in FinalUrls |->
        heuristicsScore(u, a, n, f)]]]]
cacheKeyOf ==
    [u \in URLs |-> [a \in Anchors |-> [d \in Senders |-> cacheKey(u, a, d)]]]

(***************************************************************************)
(* External signal clients.  What the outside world answers is an input:   *)
(* [ok |-> FALSE] is every way the call can throw (network error, non-2xx  *)
(* status, the 15 s / 10 s axios timeout, a body that is JSON null).       *)
(***************************************************************************)
NoResult == [present |-> FALSE]

\* async function callIPQS(url): null without a key or when the call throws.
callIPQS(hasKey, ans) ==
    IF ~hasKey \/ ~ans.ok THEN NoResult
    ELSE [present |-> TRUE,
          score |-> IF ans.fraud_score.t # "undefined"
                    THEN normalizeScore(ans.fraud_score) ELSE Null,
          flags |-> [malicious |-> ans.malicious, phishing |-> ans.phishing]]

\* async function callStalkPhish(url)
callStalkPhish(hasKey, ans) ==
    IF ~hasKey \/ ~ans.ok THEN NoResult
    ELSE [present |-> TRUE,
          score |-> IF ans.riskScore.t # "undefined"
                    THEN normalizeScore(ans.riskScore) ELSE Null]

\* async function getRedirectInfo(url).  A null finalUrl is "".
getRedirectInfo(ans) ==
    IF ~ans.ok THEN [finalUrl |-> "", redirectCount |-> 0]
    ELSE [finalUrl |-> IF ans.responseUrl # "" THEN ans.responseUrl ELSE ans.path,
          redirectCount |-> ans.redirectCount]

\* One dns.resolveTxt of checkDomainAuth: true only when the lookup
\* succeeds and some record starts with the wanted prefix.
txtFlag(ans) == ans = "record"

(***************************************************************************)
(* aggregateSignals, lines 188-209: the score and the verdict from the     *)
(* four settled sub-results.  Weights are in quarters (0.5 is 2, 0.25 is   *)
(* 1): the sums are exact, and weightedSum / totalWeight is i, s or        *)
(* (2i + s)/3, never at a rounding tie.                                    *)
(***************************************************************************)
WEIGHTS_ipqs == 2
WEIGHTS_stalkphish == 1

\* ipqsR?.score ?? null
scoreOf(r) == IF r.present THEN r.score ELSE Null

weightedSum(ipqsScore, stalkScore) ==
    LET a == IF ipqsScore # Null
             THEN (IF IsNum(ipqsScore) THEN Num(ipqsScore.v * WEIGHTS_ipqs) ELSE NaN)
             ELSE Num(0)
        b == IF stalkScore # Null
             THEN (IF IsNum(stalkScore) THEN Num(stalkScore.v * WEIGHTS_stalkphish) ELSE NaN)
             ELSE Num(0)
    IN JsAdd(a, b)

totalWeight(ipqsScore, stalkScore) ==
    (IF ipqsScore # Null THEN WEIGHTS_ipqs ELSE 0)
    + (IF stalkScore # Null THEN WEIGHTS_stalkphish ELSE 0)

\* A base score that divides by the full weight: an absent score counts as 0.
baseScoreAbsentAsZero(ipqsScore, stalkScore) ==
    LET ws == weightedSum(ipqsScore, stalkScore)
    IN IF IsNum(ws) THEN Num(MathRoundDiv(ws.v, WEIGHTS_ipqs + WEIGHTS_stalkphish)) ELSE NaN

\* let baseScore = totalWeight > 0 ? Math.round(weightedSum / totalWeight) : 50
baseScore(ipqsScore, stalkScore) ==
    LET ws == weightedSum(ipqsScore, stalkScore)
        tw == totalWeight(ipqsScore, stalkScore)
    IN IF tw > 0
       THEN (IF IsNum(ws) THEN Num(MathRoundDiv(ws.v, tw)) ELSE NaN)
       ELSE Num(50)

\* A heuristics contribution without the cap.
heuristicsContributionUncapped(heurScoreRaw) == heurScoreRaw

\* const heuristicsContribution = Math.min(30, heurScoreRaw)
heuristicsContribution(heurScoreRaw) == IF 30 <= heurScoreRaw THEN 30 ELSE heurScoreRaw

\* const authBonus = (authR.spf ? -6 : 6) + (authR.dmarc ? -4 : 4)
authBonus(authR) == (IF authR.spf THEN -6 ELSE 6) + (IF authR.dmarc THEN -4 ELSE 4)

\* const explicitMalicious = ipqsR?.flags?.malicious || ipqsR?.flags?.phishing
explicitMalicious(ipqsR) == ipqsR.present /\ (ipqsR.flags.malicious \/ ipqsR.flags.phishing)

\* Lines 205-207.
verdictOf(finalScore) ==
    IF JsGe(finalScore, 70) THEN "malicious"
    ELSE IF JsGe(finalScore, 40) THEN "suspicious"
    ELSE "safe"

\* Lines 196-207, from the two scores, the raw heuristics score, the auth
\* bonus and the explicit flag: the locals of the run.
scoreLocals(ipqsScore, stalkScore, heurScoreRaw, bonus, explicit) ==
    Once(baseScore(ipqsScore, stalkScore), LAMBDA base :
        Once(MathMax(Num(0), MathMin(Num(100),
                JsAdd(base, Num(heuristicsContribution(heurScoreRaw) + bonus)))),
             LAMBDA finalRaw :
                Once(IF explicit THEN MathMax(finalRaw, Num(85)) ELSE finalRaw,
                     LAMBDA finalScore :
                        [ipqsScore |-> ipqsScore, stalkScore |-> stalkScore,
                         heurScoreRaw |-> heurScoreRaw, baseScore |-> base,
                         heuristicsContribution |-> heuristicsContribution(heurScoreRaw),
                         authBonus |-> bonus, finalRaw |-> finalRaw,
                         explicitMalicious |-> explicit,
                         finalScore |-> finalScore, verdict |-> verdictOf(finalScore)])))

\* The locals of one run of lines 188-209 on the four settled sub-results.
scoring(url, anchorText, ipqsR, stalkR, redirectR, authR) ==
    Once(<<scoreOf(ipqsR), scoreOf(stalkR),
           heuristicsScoreOf[url][anchorText][redirectR.redirectCount][redirectR.finalUrl],
           authBonus(authR), explicitMalicious(ipqsR)>>,
         LAMBDA in : scoreLocals(in[1], in[2], in[3], in[4], in[5]))

\* breakdown: { /*...*/ }, an object with no fields.
EmptyObject == <<>>

\* const result = { url, verdict, score: finalScore, breakdown }: no cached field.
freshResult(url, loc) ==
    [url |-> url, verdict |-> loc.verdict, score |-> loc.finalScore,
     breakdown |-> EmptyObject]

\* return { ...cached, cached: true }
cachedResult(entry) ==
    [url |-> entry.url, verdict |-> entry.verdict, score |-> entry.score,
     breakdown |-> entry.breakdown, cached |-> TRUE]

(***************************************************************************)
(* Email analysis, lines 218-252.                                          *)
(***************************************************************************)
\* The address captured by /<label>.*<([a-z0-9._%+-]+@[a-z0-9.-]+\.[a-z]{2,})>/
\* when the bracket opens at j: "" when none is.  The local part runs up to
\* the '@'; the domain, a dot and two letters or more run up to the '>'.
AddressAt(s, j) ==
    IF CharAt(s, j) # "<" THEN ""
    ELSE Once(RunLen(s, j + 1, "local"), LAMBDA n1 :
            IF n1 = 0 \/ CharAt(s, j + 1 + n1) # "@" THEN ""
            ELSE Once(RunLen(s, j + n1 + 2, "host"), LAMBDA n2 :
                    IF /\ CharAt(s, j + n1 + 2 + n2) = ">"
                       /\ \E k \in 1..(n2 - 3) :
                            /\ SubSeq(s, j + n1 + 2 + k, j + n1 + 2 + k) = "."
                            /\ RunLen(s, j + n1 + 3 + k, "letter") = n2 - k - 1
                    THEN Substr(s, j + 1, j + n1 + 1 + n2)
                    ELSE ""))

\* The end of the line that holds position i ('.' does not match a newline).
LineEnd(s, i) ==
    MinOf({j \in i..(Len(s) + 1) : j > Len(s) \/ SubSeq(s, j, j) = "\n"}) - 1

\* The last address on the line, from position i on; "" when there is none.
lastAddress(s, i) ==
    Once({j \in i..LineEnd(s, i) : AddressAt(s, j) # ""},
         LAMBDA js : IF js = {} THEN "" ELSE AddressAt(s, MaxOf(js)))

\* lowerHeaders.match(/label.*<(addr)>/)[1]: the first place the label occurs
\* with an address later on its line; .* is greedy, so the last such address.
headerAddress(s, label) ==
    Once({i \in 1..Len(s) : StartsWithAt(s, i, label) /\ lastAddress(s, i + Len(label)) # ""},
         LAMBDA hits : IF hits = {} THEN ""
                       ELSE lastAddress(s, MinOf(hits) + Len(label)))

\* The value read for one mechanism: pass is looked for before fail.
authResult(low, mech) ==
    IF Includes(low, mech \o "=pass") THEN "pass"
    ELSE IF Includes(low, mech \o "=fail") THEN "fail"
    ELSE "neutral"

\* if (fromMatch && returnPathMatch && fromMatch[1] !== returnPathMatch[1])
mismatchFromReturn(low) ==
    Once(headerAddress(low, "from:"), LAMBDA from :
        Once(headerAddress(low, "return-path:"), LAMBDA returnPath :
            from # "" /\ returnPath # "" /\ from # returnPath))

headersScore(report) ==
    (IF report.spf = "pass" THEN -15 ELSE IF report.spf = "fail" THEN 25 ELSE 0)
    + (IF report.dkim = "pass" THEN -10 ELSE IF report.dkim = "fail" THEN 20 ELSE 0)
    + (IF report.dmarc = "pass" THEN -5 ELSE IF report.dmarc = "fail" THEN 25 ELSE 0)
    + (IF report.mismatch_from_return THEN 20 ELSE 0)

\* function analyzeHeaders(headersText): { score: Math.max(0, score), report }
analyzeHeaders(headersText) ==
    IF headersText = ""
    THEN [score |-> 10,
          report |-> [spf |-> "neutral", dkim |-> "neutral", dmarc |-> "neutral",
                      mismatch_from_return |-> FALSE]]
    ELSE Once(toLowerCase(headersText), LAMBDA low :
            Once([spf |-> authResult(low, "spf"), dkim |-> authResult(low, "dkim"),
                  dmarc |-> authResult(low, "dmarc"),
                  mismatch_from_return |-> mismatchFromReturn(low)],
                 LAMBDA report :
                    Once(headersScore(report), LAMBDA sum :
                        [score |-> IF sum >= 0 THEN sum ELSE 0, report |-> report])))

urgencyKeywords == <<"urgent", "action required", "account suspended",
                     "verify your account", "password expired", "unusual activity",
                     "security alert", "confirm your identity">>

\* function analyzeBody(bodyText): 8 for each keyword the text contains.
analyzeBody(bodyText) ==
    Once(toLowerCase(bodyText), LAMBDA low :
        Once(SelectSeq(urgencyKeywords, LAMBDA k : Includes(low, k)), LAMBDA found :
            [score |-> 8 * Len(found), keywordsFound |-> found]))

analyzeHeadersOf == [h \in Headers |-> analyzeHeaders(h)]
analyzeBodyOf == [b \in Bodies |-> analyzeBody(b)]

MALICIOUS_THRESHOLD == 80
SUSPICIOUS_THRESHOLD == 50

\* Lines 267-274: the loop over linkResults, from position i on.
RECURSIVE worstLink(_, _, _)
worstLink(linkResults, i, acc) ==
    IF i > Len(linkResults) THEN acc
    ELSE LET result == linkResults[i]
         IN IF JsGt(result.score, Num(acc.highestLinkScore))
            THEN worstLink(linkResults, i + 1,
                           [highestLinkScore |-> result.score.v,
                            mostMaliciousLink |-> [isNull |-> FALSE, url |-> result.url,
                                                   score |-> result.score.v]])
            ELSE worstLink(linkResults, i + 1, acc)

\* A link analysis that keeps the last link result instead of the worst.
linkAnalysisLast(linkResults) ==
    IF Len(linkResults) = 0 \/ ~IsNum(linkResults[Len(linkResults)].score)
    THEN [highestLinkScore |-> 0, mostMaliciousLink |-> [isNull |-> TRUE]]
    ELSE [highestLinkScore |-> linkResults[Len(linkResults)].score.v,
          mostMaliciousLink |-> [isNull |-> FALSE, url |-> linkResults[Len(linkResults)].url,
                                 score |-> linkResults[Len(linkResults)].score.v]]

linkAnalysis(linkResults) ==
    worstLink(linkResults, 1, [highestLinkScore |-> 0, mostMaliciousLink |-> [isNull |-> TRUE]])

\* An email score that drops the fraction instead of rounding.
normalizedScoreTruncated(headerScore, bodyScore, highestLinkScore) ==
    LET tenths == 4 * headerScore + 2 * bodyScore + 4 * highestLinkScore
    IN (IF tenths <= 1000 THEN tenths ELSE 1000) \div 10

\* Lines 276-277, in tenths: h*0.4 + b*0.2 + l*0.4 is (4h + 2b + 4l)/10, a
\* multiple of 0.2, so the floating-point sum is never near a rounding tie.
\* Math.round(Math.min(100, finalScore)).
normalizedScore(headerScore, bodyScore, highestLinkScore) ==
    LET tenths == 4 * headerScore + 2 * bodyScore + 4 * highestLinkScore
        capped == IF tenths <= 1000 THEN tenths ELSE 1000
    IN (capped + 5) \div 10

\* An email verdict on the URL thresholds 70 / 40.
emailVerdictUrlThresholds(score) ==
    IF score >= 70 THEN "malicious"
    ELSE IF score >= 40 THEN "suspicious"
    ELSE "safe"

\* Lines 279-281.
emailVerdict(score) ==
    IF score >= MALICIOUS_THRESHOLD THEN "malicious"
    ELSE IF score >= SUSPICIOUS_THRESHOLD THEN "suspicious"
    ELSE "safe"

\* Lines 261-290 once the link scans have resolved: the 200 response body.
emailResponse(headers, body, linkResults) ==
    Once(<<analyzeHeadersOf[headers], analyzeBodyOf[body], linkAnalysis(linkResults)>>,
         LAMBDA a :
            Once(normalizedScore(a[1].score, a[2].score, a[3].highestLinkScore),
                 LAMBDA score :
                    [ok |-> TRUE, verdict |-> emailVerdict(score), score |-> score,
                     breakdown |-> [headerAnalysis |-> a[1].report,
                                    bodyAnalysis |-> [keywords |-> a[2].keywordsFound],
                                    linkAnalysis |-> a[3],
                                    finalScore |-> score]]))

(***************************************************************************)
(* The server.                                                             *)
(***************************************************************************)
\* const CACHE_TTL_SECONDS, in clock ticks.
CACHE_TTL_SECONDS == 1
\* The clock stops here.
MaxTime == 2
\* aggregateSignals runs that get past the cache check, over a behaviour.
MaxCalls == 2
\* /scan-email requests that may wait for their link scans at a time.
MaxEmails == 1
\* Links of one email.
MaxLinks == 2

CallIds == 1..MaxCalls
EmailIds == 1..MaxEmails

VARIABLES
    config,   \* process.env: which API keys are set
    now,      \* Date.now(), in ticks
    cache,    \* the NodeCache: key -> [val, exp]
    calls,    \* the runs of aggregateSignals awaiting their sub-lookups
    emails,   \* the /scan-email handlers awaiting their link scans
    last,     \* the response sent last, with the request it answers
    log,      \* history: key -> the results aggregated for it, oldest first
    calc,     \* the scoring functions applied to drawn inputs (ScoreSpec)
    page,     \* the content script in a mail page: its DOM, timers and banner
    msgs      \* the chrome.runtime messages and what the listener did with each

vars == <<config, now, cache, calls, emails, last, log, calc, page, msgs>>

\* req.body of POST /scan; a missing field is "".
ScanRequests ==
    {[url |-> "", anchorText |-> "", senderDomain |-> ""],
     [url |-> "http://192.168.1.1/login", anchorText |-> "", senderDomain |-> ""],
     [url |-> "https://example.com/", anchorText |-> "www.paypal.com",
      senderDomain |-> "bank.example"]}

Links ==
    {[href |-> "http://192.168.1.1/login", anchorText |-> ""]}

LinkLists == UNION {[1..n -> Links] : n \in 0..MaxLinks}

\* req.body of POST /scan-email; a missing headers or body field is "".
EmailRequests ==
    [headers : {"Authentication-Results: spf=fail; dmarc=fail"},
     body : {"URGENT: verify your account"},
     links : LinkLists] \cup {[headers |-> "", body |-> "", links |-> <<>>]}

\* What the outside world may answer.
IPQSAnswers ==
    {[ok |-> FALSE],
     [ok |-> TRUE, fraud_score |-> RawOtherString, malicious |-> TRUE, phishing |-> FALSE]}
StalkAnswers ==
    {[ok |-> FALSE], [ok |-> TRUE, riskScore |-> RawNumber(180)]}
RedirectAnswers ==
    {[ok |-> FALSE],
     [ok |-> TRUE, responseUrl |-> "http://evil.zip/x", path |-> "/x", redirectCount |-> 3]}
TxtAnswers == {"error", "record"}

\* process.env: which provider keys are set.  The server is run with at most
\* one of them here; ScoreSpec scores under both keys as well.
Configs == [ipqsKey : BOOLEAN, stalkKey : BOOLEAN] \ {[ipqsKey |-> TRUE, stalkKey |-> TRUE]}

Pending == [st |-> "pending"]
Settled(v) == [st |-> "settled", val |-> v]
FreeCall == [st |-> "free"]
DoneCall == [st |-> "done"]
IdleEmail == [st |-> "idle"]
NoResponse == [ep |-> "none"]
IdleCalc == [op |-> "idle"]

Init ==
    /\ page = [doc |-> <<>>]
    /\ msgs = <<>>
    /\ config \in Configs
    /\ now = 0
    /\ cache = <<>>
    /\ calls = [c \in CallIds |-> FreeCall]
    /\ emails = [e \in EmailIds |-> IdleEmail]
    /\ last = NoResponse
    /\ log = <<>>
    /\ calc = IdleCalc

(***************************************************************************)
(* NodeCache with stdTTL = CACHE_TTL_SECONDS.  get returns the value while *)
(* the entry's expiry time is not yet past, and deletes an expired entry   *)
(* it is asked for; set stores the value with expiry now + TTL.            *)
(***************************************************************************)
cacheLive(c, key, t) == key \in DOMAIN c /\ c[key].exp >= t

\* The store after cache.get(key).
cacheAfterGet(c, key, t) ==
    IF key \in DOMAIN c /\ ~cacheLive(c, key, t)
    THEN [k \in DOMAIN c \ {key} |-> c[k]]
    ELSE c

\* The store after cache.set(key, val).
cacheSet(c, key, val, t) ==
    [k \in DOMAIN c \cup {key} |->
        IF k = key THEN [val |-> val, exp |-> t + CACHE_TTL_SECONDS] ELSE c[k]]

logAppend(l, key, entry) ==
    [k \in DOMAIN l \cup {key} |->
        IF k = key THEN (IF key \in DOMAIN l THEN Append(l[key], entry) ELSE <<entry>>)
        ELSE l[k]]

UsedCalls == Cardinality({c \in CallIds : calls[c] # FreeCall})

\* A launch that takes the domain auth as passed when no senderDomain is given.
launchAuthPassed(url, anchorText, senderDomain, owner) ==
    [st |-> "run", owner |-> owner,
     url |-> url, anchorText |-> anchorText, senderDomain |-> senderDomain,
     ipqs |-> IF config.ipqsKey THEN Pending ELSE Settled(NoResult),
     stalk |-> IF config.stalkKey THEN Pending ELSE Settled(NoResult),
     redirect |-> Pending,
     auth |-> IF senderDomain # "" THEN [st |-> "spf"]
              ELSE Settled([spf |-> TRUE, dmarc |-> TRUE])]

\* Lines 181-186: the sub-lookups as launched.  Without its key a client
\* returns null at once; without a senderDomain the auth result is the
\* resolved {spf: false, dmarc: false}.
launch(url, anchorText, senderDomain, owner) ==
    [st |-> "run", owner |-> owner,
     url |-> url, anchorText |-> anchorText, senderDomain |-> senderDomain,
     ipqs |-> IF config.ipqsKey THEN Pending ELSE Settled(NoResult),
     stalk |-> IF config.stalkKey THEN Pending ELSE Settled(NoResult),
     redirect |-> Pending,
     auth |-> IF senderDomain # "" THEN [st |-> "spf"]
              ELSE Settled([spf |-> FALSE, dmarc |-> FALSE])]

\* res.json({ ok: true, ...aggregated })
scanResponseBody(aggregated) ==
    IF "cached" \in DOMAIN aggregated
    THEN [ok |-> TRUE, url |-> aggregated.url, verdict |-> aggregated.verdict,
          score |-> aggregated.score, breakdown |-> aggregated.breakdown,
          cached |-> aggregated.cached]
    ELSE [ok |-> TRUE, url |-> aggregated.url, verdict |-> aggregated.verdict,
          score |-> aggregated.score, breakdown |-> aggregated.breakdown]

\* if (!url)
scanInvalid(req) == req.url = ""

\* A handler without the body test.
emailInvalidAlways(req) == FALSE

\* if (!body)
emailInvalid(req) == req.body = ""

(***************************************************************************)
(* POST /scan, up to the first await that waits: validation, the cache     *)
(* check, and on a miss the launch of the sub-lookups.  A hit is answered  *)
(* in the same turn of the event loop.                                     *)
(***************************************************************************)
Scan(req) ==
    \E key \in {IF scanInvalid(req) THEN ""
                 ELSE cacheKeyOf[req.url][req.anchorText][req.senderDomain]} :
       IF scanInvalid(req)
       THEN /\ last' = [ep |-> "scan", req |-> req, status |-> 400,
                        body |-> [error |-> "missing url"], served |-> "none"]
            /\ UNCHANGED <<page, msgs, config, now, cache, calls, emails, log, calc>>
       ELSE IF cacheLive(cache, key, now)
       THEN /\ last' = [ep |-> "scan", req |-> req, status |-> 200,
                        body |-> scanResponseBody(cachedResult(cache[key].val)),
                        served |-> "cache"]
            /\ UNCHANGED <<page, msgs, config, now, cache, calls, emails, log, calc>>
       ELSE /\ UsedCalls < MaxCalls
            /\ cache' = cacheAfterGet(cache, key, now)
            /\ calls' = [calls EXCEPT ![UsedCalls + 1] =
                            launch(req.url, req.anchorText, req.senderDomain,
                                   [kind |-> "scan", req |-> req])]
            /\ UNCHANGED <<page, msgs, config, now, emails, last, log, calc>>

(***************************************************************************)
(* POST /scan-email, up to await Promise.all(linkScanPromises): every link *)
(* goes through the cache check in the same turn, before any scan of this  *)
(* email writes the cache.                                                 *)
(***************************************************************************)
linkKey(link) == cacheKeyOf[link.href][link.anchorText][""]

Misses(links) == {i \in 1..Len(links) : ~cacheLive(cache, linkKey(links[i]), now)}

RECURSIVE cacheAfterGets(_, _, _)
cacheAfterGets(c, links, i) ==
    IF i > Len(links) THEN c
    ELSE cacheAfterGets(cacheAfterGet(c, linkKey(links[i]), now), links, i + 1)

\* The call that scans link i, a miss: calls are taken in link order.
callOfLink(links, i) == UsedCalls + Cardinality({j \in Misses(links) : j <= i})

emailRespond(req, linkResults) ==
    [ep |-> "email", req |-> req, status |-> 200,
     body |-> emailResponse(req.headers, req.body, linkResults),
     linkResults |-> linkResults, served |-> "none"]

ScanEmail(e, req) ==
    /\ emails[e] = IdleEmail
    /\ IF emailInvalid(req)
       THEN /\ last' = [ep |-> "email", req |-> req, status |-> 400,
                        body |-> [error |-> "missing email body"], served |-> "none"]
            /\ UNCHANGED <<page, msgs, config, now, cache, calls, emails, log, calc>>
       ELSE LET links == req.links
                miss == Misses(links)
                slots == [i \in 1..Len(links) |->
                            IF i \in miss
                            THEN [done |-> FALSE, call |-> callOfLink(links, i)]
                            ELSE [done |-> TRUE,
                                  res |-> cachedResult(cache[linkKey(links[i])].val)]]
            IN /\ UsedCalls + Cardinality(miss) <= MaxCalls
               /\ cache' = cacheAfterGets(cache, links, 1)
               /\ calls' = [c \in CallIds |->
                              IF \E i \in miss : callOfLink(links, i) = c
                              THEN LET i == CHOOSE i \in miss : callOfLink(links, i) = c
                                   IN launch(links[i].href, links[i].anchorText, "",
                                             [kind |-> "email", email |-> e, slot |-> i])
                              ELSE calls[c]]
               /\ IF miss = {}
                  THEN /\ last' = emailRespond(req, [i \in 1..Len(links) |-> slots[i].res])
                       /\ UNCHANGED emails
                  ELSE /\ emails' = [emails EXCEPT ![e] =
                                        [st |-> "waiting", req |-> req, slots |-> slots]]
                       /\ UNCHANGED last
               /\ UNCHANGED <<page, msgs, config, now, log, calc>>

(***************************************************************************)
(* aggregateSignals after await Promise.all([...]), lines 188-211, and the *)
(* continuation of the handler that awaits it.  It runs in the turn in     *)
(* which the last sub-lookup settles.                                      *)
(***************************************************************************)
AllSettled(call) ==
    /\ call.ipqs.st = "settled"
    /\ call.stalk.st = "settled"
    /\ call.redirect.st = "settled"
    /\ call.auth.st = "settled"

aggregateResult(call) ==
    freshResult(call.url,
                scoring(call.url, call.anchorText, call.ipqs.val, call.stalk.val,
                        call.redirect.val, call.auth.val))

\* The slots of the email that call c scans a link of, with its result in.
slotsWith(call, result) ==
    [emails[call.owner.email].slots EXCEPT ![call.owner.slot] =
        [done |-> TRUE, res |-> result]]

Complete(c, call) ==
    \E result \in {aggregateResult(call)},
       key \in {cacheKeyOf[call.url][call.anchorText][call.senderDomain]} :
       /\ cache' = cacheSet(cache, key, result, now)
       /\ log' = logAppend(log, key, [res |-> result, at |-> now,
                                      scan |-> call.owner.kind = "scan"])
       /\ calls' = [calls EXCEPT ![c] = DoneCall]
       /\ IF call.owner.kind = "scan"
          THEN /\ last' = [ep |-> "scan", req |-> call.owner.req, status |-> 200,
                           body |-> scanResponseBody(result), served |-> "fresh"]
               /\ UNCHANGED emails
          ELSE \E slots \in {slotsWith(call, result)} :
                  IF \A i \in DOMAIN slots : slots[i].done
                  THEN /\ last' = emailRespond(emails[call.owner.email].req,
                                               [i \in DOMAIN slots |-> slots[i].res])
                       /\ emails' = [emails EXCEPT ![call.owner.email] = IdleEmail]
                  ELSE /\ emails' = [emails EXCEPT ![call.owner.email].slots = slots]
                       /\ UNCHANGED last

\* A fast path: once IPQS has flagged the URL the run is scored at once,
\* the lookups still out standing for their neutral values.
AfterSettleFastPath(c, settled) ==
    \E call \in {IF settled.ipqs.st = "settled" /\ explicitMalicious(settled.ipqs.val)
                  THEN [settled EXCEPT
                          !.stalk = IF @.st = "settled" THEN @ ELSE Settled(NoResult),
                          !.redirect = IF @.st = "settled" THEN @
                                       ELSE Settled([finalUrl |-> "", redirectCount |-> 0]),
                          !.auth = IF @.st = "settled" THEN @
                                   ELSE Settled([spf |-> FALSE, dmarc |-> FALSE])]
                  ELSE settled} :
       /\ IF AllSettled(call)
          THEN Complete(c, call)
          ELSE /\ calls' = [calls EXCEPT ![c] = call]
               /\ UNCHANGED <<cache, emails, last, log>>
       /\ UNCHANGED <<page, msgs, config, now, calc>>

\* A sub-lookup of call c has settled, leaving the call as `call`.
AfterSettle(c, settled) ==
    \E call \in {settled} :
       /\ IF AllSettled(call)
          THEN Complete(c, call)
          ELSE /\ calls' = [calls EXCEPT ![c] = call]
               /\ UNCHANGED <<cache, emails, last, log>>
       /\ UNCHANGED <<page, msgs, config, now, calc>>

SettleIPQS(c, ans) ==
    /\ calls[c].st = "run"
    /\ calls[c].ipqs = Pending
    /\ AfterSettle(c, [calls[c] EXCEPT !.ipqs = Settled(callIPQS(config.ipqsKey, ans))])

SettleStalkPhish(c, ans) ==
    /\ calls[c].st = "run"
    /\ calls[c].stalk = Pending
    /\ AfterSettle(c, [calls[c] EXCEPT !.stalk = Settled(callStalkPhish(config.stalkKey, ans))])

SettleRedirect(c, ans) ==
    /\ calls[c].st = "run"
    /\ calls[c].redirect = Pending
    /\ AfterSettle(c, [calls[c] EXCEPT !.redirect = Settled(getRedirectInfo(ans))])

\* checkDomainAuth: the SPF lookup, then the DMARC lookup.
SettleSPF(c, ans) ==
    /\ calls[c].st = "run"
    /\ calls[c].auth.st = "spf"
    /\ AfterSettle(c, [calls[c] EXCEPT !.auth = [st |-> "dmarc", spf |-> txtFlag(ans)]])

SettleDMARC(c, ans) ==
    /\ calls[c].st = "run"
    /\ calls[c].auth.st = "dmarc"
    /\ AfterSettle(c, [calls[c] EXCEPT !.auth =
                          Settled([spf |-> calls[c].auth.spf, dmarc |-> txtFlag(ans)])])

\* Time passes.
Tick ==
    /\ now < MaxTime
    /\ now' = now + 1
    /\ UNCHANGED <<page, msgs, config, cache, calls, emails, last, log, calc>>

\* NodeCache's periodic check (checkperiod: 120) deletes the expired entries.
Sweep ==
    /\ \E k \in DOMAIN cache : ~cacheLive(cache, k, now)
    /\ cache' = [k \in {x \in DOMAIN cache : cacheLive(cache, x, now)} |-> cache[k]]
    /\ UNCHANGED <<page, msgs, config, now, calls, emails, last, log, calc>>

Next ==
    \/ \E req \in ScanRequests : Scan(req)
    \/ \E e \in EmailIds, req \in EmailRequests : ScanEmail(e, req)
    \/ \E c \in CallIds, ans \in IPQSAnswers : SettleIPQS(c, ans)
    \/ \E c \in CallIds, ans \in StalkAnswers : SettleStalkPhish(c, ans)
    \/ \E c \in CallIds, ans \in RedirectAnswers : SettleRedirect(c, ans)
    \/ \E c \in CallIds, ans \in TxtAnswers : SettleSPF(c, ans)
    \/ \E c \in CallIds, ans \in TxtAnswers : SettleDMARC(c, ans)
    \/ Tick
    \/ Sweep

Spec == Init /\ [][Next]_vars

(***************************************************************************)
(* The server with the waits the code bounds.  axios.get is called with    *)
(* { timeout: 15000 } (lines 137, 153) and { timeout: 10000 } (line 166):  *)
(* a provider call or a redirect resolution that is out settles, by its    *)
(* answer or by the timeout.  dns.resolveTxt (lines 122, 127) is called    *)
(* with the name alone: the code gives it no timeout, and a lookup that    *)
(* is never answered stays out.                                            *)
(***************************************************************************)
TimeoutSpec ==
    /\ Spec
    /\ WF_vars(\E c \in CallIds, ans \in IPQSAnswers : SettleIPQS(c, ans))
    /\ WF_vars(\E c \in CallIds, ans \in StalkAnswers : SettleStalkPhish(c, ans))
    /\ WF_vars(\E c \in CallIds, ans \in RedirectAnswers : SettleRedirect(c, ans))

(***************************************************************************)
(* The scoring functions on their own: one run of aggregateSignals past    *)
(* the cache check (lines 181-209) and one run of the email scorer (lines  *)
(* 261-290), on inputs drawn from bounded sets.                            *)
(***************************************************************************)
\* data.fraud_score / data.riskScore as the provider may send it: missing,
\* null, a word, a numeric string, or a number (in halves: -1.5, 0, 29,
\* 29.5, 59, 60, 100.5).
RawScores ==
    {Undefined, Null, RawOtherString, RawNumericString(170)}
    \cup {RawNumber(h) : h \in {-3, 0, 58, 59, 118, 120, 201}}

ScoreIPQSAnswers ==
    {[ok |-> FALSE]}
    \cup {[ok |-> TRUE, fraud_score |-> r, malicious |-> f[1], phishing |-> f[2]] :
            r \in RawScores, f \in {<<FALSE, FALSE>>, <<TRUE, FALSE>>, <<FALSE, TRUE>>}}

ScoreStalkAnswers ==
    {[ok |-> FALSE]}
    \cup {[ok |-> TRUE, riskScore |-> r] :
            r \in {Undefined, RawOtherString, RawNumber(0), RawNumber(59),
                   RawNumber(120), RawNumber(201)}}

ScoreTargets ==
    {[url |-> "https://example.com/", anchorText |-> "", senderDomain |-> ""],
     [url |-> "https://example.com/", anchorText |-> "www.paypal.com",
      senderDomain |-> "bank.example"],
     [url |-> "http://192.168.1.1/login", anchorText |-> "", senderDomain |-> "bank.example"],
     [url |-> "http://xn--pypal-4ve.top/a", anchorText |-> "www.paypal.com",
      senderDomain |-> ""]}

AggregateInputs ==
    [target : ScoreTargets, ipqs : ScoreIPQSAnswers, stalk : ScoreStalkAnswers,
     redirect : RedirectAnswers, spf : TxtAnswers, dmarc : TxtAnswers]

\* The results the link scans of an email may resolve to.
LinkScores == {NaN, Num(0), Num(73), Num(74), Num(76), Num(77), Num(100)}
LinkResults ==
    {[url |-> "https://example.com/", verdict |-> verdictOf(sc), score |-> sc,
      breakdown |-> EmptyObject] : sc \in LinkScores}
LinkResultLists == UNION {[1..n -> LinkResults] : n \in 0..MaxLinks}

EmailInputs == [headers : Headers, body : Bodies \ {""}, linkResults : LinkResultLists]

\* checkDomainAuth(domain) from what its two lookups answer, and the
\* resolved { spf: false, dmarc: false } that stands in without a domain.
checkDomainAuth(senderDomain, spfAns, dmarcAns) ==
    IF senderDomain = "" THEN [spf |-> FALSE, dmarc |-> FALSE]
    ELSE [spf |-> txtFlag(spfAns), dmarc |-> txtFlag(dmarcAns)]

\* The three scores the email score is made of: a header score (a multiple
\* of 5: analyzeHeaders adds and subtracts multiples of 5; it returns up to
\* 90, and the formula is applied past that, to where the cap at 100 acts),
\* a body score (8 for each of the eight keywords) and the highest link
\* score.
MaxHeaderFives == 30
ScoreTriples ==
    [h : {5 * k : k \in 0..MaxHeaderFives}, b : {8 * k : k \in 0..8}, l : 0..100]

HeuristicsInputs ==
    [url : URLs, anchorText : Anchors, redirectCount : RedirectCounts, finalUrl : FinalUrls]

\* Scan targets whose fields hold the separator of the cache key.
KeyTargets ==
    [url : {"http://a.example/x", "http://a.example/x::y"},
     anchorText : {"", "y", "y::"},
     senderDomain : {"", "bank.example"}]

KeyInputs == [first : KeyTargets, second : KeyTargets]

InitScore ==
    /\ page = [doc |-> <<>>]
    /\ msgs = <<>>
    /\ now = 0
    /\ cache = <<>>
    /\ calls = [c \in CallIds |-> FreeCall]
    /\ emails = [e \in EmailIds |-> IdleEmail]
    /\ last = NoResponse
    /\ log = <<>>
    /\ \/ /\ config \in [ipqsKey : BOOLEAN, stalkKey : BOOLEAN]
          /\ calc \in {[op |-> "aggregate", done |-> FALSE, in |-> x] : x \in AggregateInputs}
       \/ /\ config = [ipqsKey |-> FALSE, stalkKey |-> FALSE]
          /\ \/ calc \in {[op |-> "email", done |-> FALSE, in |-> x] : x \in EmailInputs}
             \/ calc \in {[op |-> "key", done |-> FALSE, in |-> x] : x \in KeyInputs}
             \/ calc \in {[op |-> "headers", done |-> FALSE, in |-> x] : x \in Headers}
             \/ calc \in {[op |-> "score", done |-> FALSE, in |-> x] : x \in ScoreTriples}
             \/ calc \in {[op |-> "heuristics", done |-> FALSE, in |-> x] :
                              x \in HeuristicsInputs}

ApplyAggregate ==
    /\ calc.op = "aggregate" /\ ~calc.done
    /\ \E ipqsR \in {callIPQS(config.ipqsKey, calc.in.ipqs)},
          stalkR \in {callStalkPhish(config.stalkKey, calc.in.stalk)},
          redirectR \in {getRedirectInfo(calc.in.redirect)},
          authR \in {checkDomainAuth(calc.in.target.senderDomain,
                                     calc.in.spf, calc.in.dmarc)} :
          \E loc \in {scoring(calc.in.target.url, calc.in.target.anchorText,
                              ipqsR, stalkR, redirectR, authR)} :
             calc' = [op |-> "aggregate", done |-> TRUE, in |-> calc.in,
                      ipqsR |-> ipqsR, stalkR |-> stalkR, redirectR |-> redirectR,
                      authR |-> authR, loc |-> loc,
                      result |-> freshResult(calc.in.target.url, loc)]
    /\ UNCHANGED <<page, msgs, config, now, cache, calls, emails, last, log>>

ApplyEmail ==
    /\ calc.op = "email" /\ ~calc.done
    /\ calc' = [op |-> "email", done |-> TRUE, in |-> calc.in,
                out |-> emailResponse(calc.in.headers, calc.in.body, calc.in.linkResults)]
    /\ UNCHANGED <<page, msgs, config, now, cache, calls, emails, last, log>>

\* Lines 177-179 and 210 on two targets in turn: the run for the first writes
\* cache.set(cacheKey, result); the run for the second reads
\* cache.get(cacheKey) in the same instant.  hit: the second is answered
\* from the entry of the first.
ApplyKey ==
    /\ calc.op = "key" /\ ~calc.done
    /\ \E k1 \in {cacheKey(calc.in.first.url, calc.in.first.anchorText,
                             calc.in.first.senderDomain)},
          k2 \in {cacheKey(calc.in.second.url, calc.in.second.anchorText,
                             calc.in.second.senderDomain)} :
          calc' = [op |-> "key", done |-> TRUE, in |-> calc.in, keys |-> <<k1, k2>>,
                   hit |-> cacheLive(cacheSet(cache, k1, [url |-> calc.in.first.url], now),
                                     k2, now)]
    /\ UNCHANGED <<page, msgs, config, now, cache, calls, emails, last, log>>

\* analyzeHeaders(headers), line 261.
ApplyHeaders ==
    /\ calc.op = "headers" /\ ~calc.done
    /\ calc' = [op |-> "headers", done |-> TRUE, in |-> calc.in,
                out |-> analyzeHeadersOf[calc.in]]
    /\ UNCHANGED <<page, msgs, config, now, cache, calls, emails, last, log>>

\* Lines 276-277 on the three scores.
ApplyNormalizedScore ==
    /\ calc.op = "score" /\ ~calc.done
    /\ calc' = [op |-> "score", done |-> TRUE, in |-> calc.in,
                out |-> normalizedScore(calc.in.h, calc.in.b, calc.in.l)]
    /\ UNCHANGED <<page, msgs, config, now, cache, calls, emails, last, log>>

\* heuristicsScore({ url, anchorText, redirectCount, finalUrl }), line 190.
ApplyHeuristics ==
    /\ calc.op = "heuristics" /\ ~calc.done
    /\ calc' = [op |-> "heuristics", done |-> TRUE, in |-> calc.in,
                out |-> heuristicsScoreOf[calc.in.url][calc.in.anchorText]
                                         [calc.in.redirectCount][calc.in.finalUrl]]
    /\ UNCHANGED <<page, msgs, config, now, cache, calls, emails, last, log>>

NextScore ==
    \/ ApplyAggregate
    \/ ApplyEmail
    \/ ApplyKey
    \/ ApplyHeaders
    \/ ApplyNormalizedScore
    \/ ApplyHeuristics

ScoreSpec == InitScore /\ [][NextScore]_vars

Aggregated == calc.op = "aggregate" /\ calc.done
EmailScored == calc.op = "email" /\ calc.done

(***************************************************************************)
(* Properties.                                                             *)
(***************************************************************************)
IsScore(x) == IsNum(x) /\ x.v \in 0..100

\* C1: every score returned to a caller is an integer in [0,100]: the score
\* of every /scan result (fresh or cached), of every link result of an
\* email, and of every 200 response of /scan-email.
C1_ScoreInRange ==
    /\ (last.ep = "scan" /\ last.status = 200) => IsScore(last.body.score)
    /\ (last.ep = "email" /\ last.status = 200) =>
          /\ last.body.score \in 0..100
          /\ \A i \in DOMAIN last.linkResults : IsScore(last.linkResults[i].score)

\* The /scan aggregations logged for the key of req that are younger than
\* the TTL, by their position in the history.
youngScans(req) ==
    LET k == cacheKeyOf[req.url][req.anchorText][req.senderDomain]
    IN IF k \in DOMAIN log
       THEN {i \in DOMAIN log[k] : log[k][i].scan /\ now < log[k][i].at + CACHE_TTL_SECONDS}
       ELSE {}

firstScan(req) ==
    log[cacheKeyOf[req.url][req.anchorText][req.senderDomain]][MinOf(youngScans(req))].res

\* C2: once a /scan request for a triple has completed, a later /scan
\* request with the identical triple within the TTL is answered with the
\* url, verdict, score and breakdown of that first response, with cached =
\* true, and launches no lookup.
C2_Idempotent ==
    [][\A req \in ScanRequests :
          (~scanInvalid(req) /\ youngScans(req) # {} /\ Scan(req)) =>
             /\ last'.ep = "scan" /\ last'.status = 200
             /\ last'.served = "cache"
             /\ last'.body.url = firstScan(req).url
             /\ last'.body.verdict = firstScan(req).verdict
             /\ last'.body.score = firstScan(req).score
             /\ last'.body.breakdown = firstScan(req).breakdown
             /\ "cached" \in DOMAIN last'.body /\ last'.body.cached = TRUE
             /\ calls' = calls]_vars

\* C3: whenever the IPQS result flags malicious or phishing the final score
\* is at least 85 and the verdict is 'malicious', whatever the other
\* signals are; without the flag the final score is the clamped raw value.
C3_Override ==
    Aggregated =>
        IF config.ipqsKey /\ calc.in.ipqs.ok
           /\ (calc.in.ipqs.malicious \/ calc.in.ipqs.phishing)
        THEN JsGe(calc.result.score, 85) /\ calc.result.verdict = "malicious"
        ELSE calc.result.score = calc.loc.finalRaw

\* The rounded weighted average of the present scores (weights 2 : 1, that
\* is 0.5 : 0.25), 50 when none is present; not a number when a present
\* score is not a number.
expectedBase(i, s) ==
    IF i = Null /\ s = Null THEN Num(50)
    ELSE IF s = Null THEN i
    ELSE IF i = Null THEN s
    ELSE IF IsNum(i) /\ IsNum(s)
    THEN Num(CHOOSE r \in 0..100 : 6 * r - 3 <= 2 * (2 * i.v + s.v)
                                   /\ 2 * (2 * i.v + s.v) < 6 * r + 3)
    ELSE NaN

\* C4: the base score is the rounded weighted average over the provider
\* scores that are present (0.5 for IPQS, 0.25 for StalkPhish): with one
\* provider present it is that provider's score, a present 0 is counted,
\* and with both absent it is 50.
C4_BaseScore ==
    Aggregated => calc.loc.baseScore = expectedBase(calc.loc.ipqsScore, calc.loc.stalkScore)

C4_Witness ==
    /\ Aggregated
    /\ calc.loc.ipqsScore = Num(0)
    /\ calc.loc.stalkScore = Null
    /\ calc.loc.baseScore = Num(0)

\* C5: for every result of aggregateSignals the verdict is 'safe' exactly
\* when score < 40, 'suspicious' exactly when 40 <= score <= 69 and
\* 'malicious' exactly when score >= 70.
C5_UrlThresholds ==
    Aggregated =>
        /\ calc.result.verdict = "safe" <=>
              (IsNum(calc.result.score) /\ calc.result.score.v < 40)
        /\ calc.result.verdict = "suspicious" <=>
              (IsNum(calc.result.score) /\ calc.result.score.v \in 40..69)
        /\ calc.result.verdict = "malicious" <=>
              (IsNum(calc.result.score) /\ calc.result.score.v >= 70)

\* C6: for every 200 response of /scan-email the verdict is 'malicious'
\* exactly when the score is at least 80, 'suspicious' exactly when it is
\* in 50..79, and 'safe' otherwise.
C6_EmailThresholds ==
    EmailScored =>
        /\ calc.out.score \in 0..100
        /\ calc.out.verdict = "malicious" <=> calc.out.score >= 80
        /\ calc.out.verdict = "suspicious" <=> calc.out.score \in 50..79
        /\ calc.out.verdict = "safe" <=> calc.out.score < 50

C6_Witness ==
    /\ EmailScored
    /\ calc.out.score = 80
    /\ calc.out.verdict = "malicious"

\* The numeric scores among the link results of the email answered last.
lastLinkScores ==
    {last.linkResults[i].score.v :
        i \in {j \in DOMAIN last.linkResults : IsNum(last.linkResults[j].score)}}

C8_NoPartialProcessing ==
    [][/\ \A req \in ScanRequests :
             (req.url = "" /\ Scan(req)) =>
                /\ last'.status = 400
                /\ cache' = cache /\ calls' = calls /\ emails' = emails /\ log' = log
       /\ \A e \in EmailIds, req \in EmailRequests :
             (req.body = "" /\ ScanEmail(e, req)) =>
                /\ last'.status = 400
                /\ cache' = cache /\ calls' = calls /\ emails' = emails /\ log' = log]_vars

C8_Witness ==
    /\ last.ep = "email" /\ last.status = 400
    /\ cache # <<>>
    /\ \E c \in CallIds : calls[c].st = "run"

\* A score field that holds no number: missing, null, or a word.
malformed(raw) == raw \in {Undefined, Null, RawOtherString}

\* C9: each sub-lookup that fails, lacks its key or answers with a
\* malformed response is replaced by its neutral value (null score,
\* no final URL and 0 redirects, false flag), and the scores of the lookups
\* that succeeded are used as they are.
C9_IsolatedFailure ==
    Aggregated =>
        /\ calc.result.verdict \in {"safe", "suspicious", "malicious"}
        /\ (~config.ipqsKey \/ ~calc.in.ipqs.ok \/ malformed(calc.in.ipqs.fraud_score))
              => calc.loc.ipqsScore = Null
        /\ (~config.stalkKey \/ ~calc.in.stalk.ok \/ malformed(calc.in.stalk.riskScore))
              => calc.loc.stalkScore = Null
        /\ (config.ipqsKey /\ calc.in.ipqs.ok /\ ~malformed(calc.in.ipqs.fraud_score))
              => IsScore(calc.loc.ipqsScore)
        /\ (config.stalkKey /\ calc.in.stalk.ok /\ ~malformed(calc.in.stalk.riskScore))
              => IsScore(calc.loc.stalkScore)
        /\ ~calc.in.redirect.ok => calc.redirectR = [finalUrl |-> "", redirectCount |-> 0]
        /\ (calc.in.target.senderDomain = "" \/ calc.in.spf = "error") => ~calc.authR.spf
        /\ (calc.in.target.senderDomain = "" \/ calc.in.dmarc = "error") => ~calc.authR.dmarc

\* C10: every successful /scan response carries a boolean cached field,
\* true exactly when the result was served from the cache and false when it
\* was freshly computed.
C10_CachedField ==
    (last.ep = "scan" /\ last.status = 200) =>
        /\ "cached" \in DOMAIN last.body
        /\ last.body.cached = (last.served = "cache")

\* C11: two scan targets share a cache entry exactly when their triples
\* (url, anchorText, senderDomain) are equal component by component, also
\* for strings that hold the separator '::': a request is answered from an
\* entry only if that entry was written for its own triple.
C11_KeyIsTriple ==
    (calc.op = "key" /\ calc.done) =>
        /\ (calc.keys[1] = calc.keys[2]) <=> (calc.in.first = calc.in.second)
        /\ calc.hit <=> (calc.in.first = calc.in.second)

\* The marker occurs in the text, whatever its case.
hasMarker(text, marker) == Includes(toLowerCase(text), marker)

\* The sum the markers present in the text stand for.
markerSum(text) ==
    (IF hasMarker(text, "spf=fail") THEN 25 ELSE 0)
    + (IF hasMarker(text, "dkim=fail") THEN 20 ELSE 0)
    + (IF hasMarker(text, "dmarc=fail") THEN 25 ELSE 0)
    + (IF hasMarker(text, "spf=pass") THEN -15 ELSE 0)
    + (IF hasMarker(text, "dkim=pass") THEN -10 ELSE 0)
    + (IF hasMarker(text, "dmarc=pass") THEN -5 ELSE 0)

\* What the report says of one mechanism agrees with the markers present.
reportAgrees(text, mech, value) ==
    /\ value \in {"pass", "fail", "neutral"}
    /\ value = "pass" => hasMarker(text, mech \o "=pass")
    /\ value = "fail" => hasMarker(text, mech \o "=fail")
    /\ value = "neutral" =>
          ~hasMarker(text, mech \o "=pass") /\ ~hasMarker(text, mech \o "=fail")

\* C12: for non-empty header text the score of analyzeHeaders is max(0, S),
\* S being the sum over the markers present in the text (spf=fail +25,
\* dkim=fail +20, dmarc=fail +25, spf=pass -15, dkim=pass -10, dmarc=pass
\* -5, in any case of the letters) plus 20 when the From and Return-Path
\* addresses are both there and differ; the report names each mechanism
\* 'pass', 'fail' or 'neutral' accordingly; empty text scores 10.
C12_HeaderScore ==
    (calc.op = "headers" /\ calc.done) =>
        /\ calc.in = "" => calc.out.score = 10
        /\ calc.in # "" =>
              calc.out.score
                 = MaxOf({0, markerSum(calc.in)
                             + (IF calc.out.report.mismatch_from_return THEN 20 ELSE 0)})
        /\ reportAgrees(calc.in, "spf", calc.out.report.spf)
        /\ reportAgrees(calc.in, "dkim", calc.out.report.dkim)
        /\ reportAgrees(calc.in, "dmarc", calc.out.report.dmarc)
        /\ calc.out.report.mismatch_from_return
              <=> (StartsWith(calc.in, "From: ") /\ Includes(calc.in, "<x@evil.zip>"))
        /\ calc.in = "Authentication-Results: spf=fail; dmarc=fail" =>
              /\ calc.out.score = 50
              /\ calc.out.report.spf = "fail" /\ calc.out.report.dkim = "neutral"
              /\ calc.out.report.dmarc = "fail"

\* C13: within one TTL window at most one aggregation is performed for a
\* fingerprint, whatever the interleaving of the requests: an aggregation
\* that follows another for the same key completes a full TTL later, so
\* all responses of a window carry the one score and verdict.
C13_OneAggregationPerWindow ==
    \A k \in DOMAIN log :
        \A i, j \in DOMAIN log[k] :
            i < j => log[k][j].at >= log[k][i].at + CACHE_TTL_SECONDS

\* The sub-lookups of a run of aggregateSignals that have not settled: the
\* two provider calls, the redirect resolution, and the SPF and the DMARC
\* lookup of checkDomainAuth.
pendingLookups(call) ==
    (IF call.ipqs.st = "settled" THEN 0 ELSE 1)
    + (IF call.stalk.st = "settled" THEN 0 ELSE 1)
    + (IF call.redirect.st = "settled" THEN 0 ELSE 1)
    + (IF call.auth.st = "settled" THEN 0 ELSE IF call.auth.st = "dmarc" THEN 1 ELSE 2)

\* C14: a run of aggregateSignals scores and writes the cache only in the
\* step in which the last of its launched sub-lookups settles; until then
\* no result is logged or cached for it, and no sub-lookup is dropped
\* because another has finished, failed or raised the malicious flag:
\* lookups leave the pending state one at a time, by settling.
C14_JoinBeforeScoring ==
    [][/\ \A c \in CallIds :
             calls[c].st = "run" =>
                IF calls'[c].st = "run"
                THEN pendingLookups(calls'[c]) \in
                        {pendingLookups(calls[c]), pendingLookups(calls[c]) - 1}
                ELSE calls'[c] = DoneCall /\ pendingLookups(calls[c]) = 1
       /\ log' # log =>
             \E c \in CallIds :
                calls[c].st = "run" /\ calls'[c] = DoneCall /\ pendingLookups(calls[c]) = 1
       /\ (\E k \in DOMAIN cache' : k \notin DOMAIN cache \/ cache'[k] # cache[k]) =>
             log' # log]_vars

C14_Witness ==
    \E c \in CallIds :
        /\ calls[c].st = "run"
        /\ calls[c].ipqs.st = "settled" /\ explicitMalicious(calls[c].ipqs.val)
        /\ calls[c].redirect = Pending
        /\ calls[c].auth.st = "dmarc"
        /\ log = <<>> /\ cache = <<>>

\* C15: every external call of aggregateSignals is bounded by a timeout, so
\* every run of aggregateSignals that has launched its sub-lookups returns
\* in the end, also when external services never answer.
C15_AlwaysReturns ==
    \A c \in CallIds : (calls[c].st = "run") ~> (calls[c].st = "done")

\* x clamped to [0, 100].
clamp(x) == IF x < 0 THEN 0 ELSE IF x > 100 THEN 100 ELSE x

\* C16: finalRaw is base + min(30, heuristicRaw) + authBonus clamped to
\* [0, 100] (not a number when the base is not one), where authBonus is
\* (-6 if SPF passes, else +6) + (-4 if DMARC passes, else +4): the
\* heuristic part adds at most 30 and the auth part is -10, -2, +2 or +10.
C16_RawComposition ==
    Aggregated =>
        /\ calc.loc.authBonus
              = (IF calc.authR.spf THEN -6 ELSE 6) + (IF calc.authR.dmarc THEN -4 ELSE 4)
        /\ calc.loc.authBonus \in {-10, -2, 2, 10}
        /\ calc.loc.heuristicsContribution = MinOf({30, calc.loc.heurScoreRaw})
        /\ calc.loc.finalRaw
              = IF IsNum(calc.loc.baseScore)
                THEN Num(clamp(calc.loc.baseScore.v + MinOf({30, calc.loc.heurScoreRaw})
                                  + calc.loc.authBonus))
                ELSE NaN

C16_Witness ==
    /\ Aggregated
    /\ calc.loc.heurScoreRaw = 45
    /\ calc.loc.baseScore = Num(50)
    /\ calc.loc.authBonus = 10
    /\ calc.loc.finalRaw = Num(90)

\* Ten times the weighted sum 0.4 h + 0.2 b + 0.4 l of the scored triple.
tenthsOf(in) == 4 * in.h + 2 * in.b + 4 * in.l

\* C17: for every header score h >= 0, body score b (a multiple of 8 in
\* 0..64) and highest link score l in 0..100 the email score is
\* min(100, round((4h + 2b + 4l) / 10)); rounding then clamping and
\* clamping then rounding give the same integer, and the weighted sum is
\* never half way between two integers.
C17_EmailScoreFormula ==
    (calc.op = "score" /\ calc.done) =>
        /\ calc.out = MinOf({100, MathRoundDiv(tenthsOf(calc.in), 10)})
        /\ calc.out = MathRoundDiv(MinOf({1000, tenthsOf(calc.in)}), 10)
        /\ tenthsOf(calc.in) % 10 # 5

C17_Witness ==
    /\ calc.op = "score" /\ calc.done
    /\ tenthsOf(calc.in) = 996
    /\ calc.out = 100

\* The entry for key k was written less than a TTL ago.
unexpired(k) == k \in DOMAIN cache /\ now < cache[k].exp

\* C18: an entry written at time t is returned, with cached = true, only to
\* requests before t + TTL; an identical request at or after t + TTL is not
\* answered from it and starts a fresh aggregation; and before t + TTL
\* nothing removes or changes the entry.
C18_Expiry ==
    [][/\ \A req \in ScanRequests :
             (~scanInvalid(req) /\ Scan(req)) =>
                IF unexpired(cacheKeyOf[req.url][req.anchorText][req.senderDomain])
                THEN last'.served = "cache" /\ last'.body.cached = TRUE /\ calls' = calls
                ELSE calls' # calls /\ last' = last
       /\ \A k \in DOMAIN cache :
             unexpired(k) => k \in DOMAIN cache' /\ cache'[k] = cache[k]]_vars

\* The host a host/URL-like token names: the host of the URL when the token
\* is one ("" when it is malformed), else the token, a host name, in lower
\* case.
tokenHost(token) ==
    IF SchemeLen(token) > 0
    THEN (IF URL(token).ok THEN URL(token).hostname ELSE "")
    ELSE toLowerCase(token)

\* What the anchor text may add: 12 when it holds a token whose host is not
\* the target's, nothing when the token names the target's host, when it
\* is malformed or when there is none.  Hosts that differ by a leading
\* "www." alone may count either way.
anchorMismatch(anchorText, hostname) ==
    IF anchorText = "" \/ anchorMatch(anchorText) = "" THEN {0}
    ELSE IF tokenHost(anchorMatch(anchorText)) \in {"", hostname} THEN {0}
    ELSE IF StripWww(tokenHost(anchorMatch(anchorText))) = StripWww(hostname) THEN {0, 12}
    ELSE {12}

\* C19: heuristicsScore is defined on every input and is the sum of the
\* contributions that apply: 12 when the anchor text holds a host/URL-like
\* token whose host differs from the target's host (nothing when it is the
\* target's host), 10 for a punycode host, 12 for an IPv4 literal, 8 for a
\* suspicious TLD, min(12, 3 * redirectCount) from 3 redirects on, 6 when
\* the final host differs; 0 for a malformed url; a malformed anchor token
\* or final URL adds nothing and takes nothing away.
C19_HeuristicsSum ==
    (calc.op = "heuristics" /\ calc.done) =>
        /\ calc.out \in Nat
        /\ ~URL(calc.in.url).ok => calc.out = 0
        /\ URL(calc.in.url).ok =>
              \E anchorPart \in anchorMismatch(calc.in.anchorText,
                                                  URL(calc.in.url).hostname) :
                 calc.out = anchorPart
                 + (IF isPunycode(URL(calc.in.url).hostname) THEN 10 ELSE 0)
                 + (IF hasIPInHostname(URL(calc.in.url).hostname) THEN 12 ELSE 0)
                 + (IF tldOf(URL(calc.in.url).hostname) \in suspiciousTLDs THEN 8 ELSE 0)
                 + (IF calc.in.redirectCount >= 3
                    THEN MinOf({12, 3 * calc.in.redirectCount}) ELSE 0)
                 + (IF URL(calc.in.finalUrl).ok
                       /\ URL(calc.in.finalUrl).hostname # URL(calc.in.url).hostname
                    THEN 6 ELSE 0)

\* No provider key is set: no provider score is present in any run.
noProvider == ~config.ipqsKey /\ ~config.stalkKey

\* C20: a scan without a senderDomain is scored with the auth result
\* {spf: false, dmarc: false}, as if both lookups had failed (+10), and the
\* link scans of /scan-email carry no senderDomain; so with no provider
\* score present such a scan scores at least 60 and is never 'safe', and an
\* email with at least one link has a highestLinkScore of at least 60.
C20_NoSenderScoredAsFailed ==
    /\ \A c \in CallIds :
          calls[c].st = "run" =>
             /\ calls[c].owner.kind = "email" => calls[c].senderDomain = ""
             /\ calls[c].senderDomain = "" =>
                   /\ calls[c].auth = Settled([spf |-> FALSE, dmarc |-> FALSE])
                   /\ authBonus(calls[c].auth.val) = 10
    /\ (noProvider /\ last.ep = "scan" /\ last.status = 200 /\ last.req.senderDomain = "") =>
          /\ JsGe(last.body.score, 60)
          /\ last.body.verdict # "safe"
    /\ (noProvider /\ last.ep = "email" /\ last.status = 200 /\ Len(last.req.links) >= 1) =>
          /\ last.body.breakdown.linkAnalysis.highestLinkScore >= 60
          /\ \A i \in DOMAIN last.linkResults :
                JsGe(last.linkResults[i].score, 60) /\ last.linkResults[i].verdict # "safe"

C20_Witness ==
    /\ noProvider
    /\ last.ep = "email" /\ last.status = 200
    /\ Len(last.req.links) = 2
    /\ last.body.breakdown.linkAnalysis.highestLinkScore = 72
    /\ \E c \in CallIds : calls[c].st = "run" /\ calls[c].senderDomain = ""

(***************************************************************************)
(* The browser extension: the content script in a mail page                *)
(* (content_script.js) and the message listener of the extension's         *)
(* background script (background.js, lines 1-37).                          *)
(***************************************************************************)
\* Email body nodes ('.adn.ads') the page creates.
MaxNodes == 2
\* setTimeout(scanVisibleEmail, 200) timers pending at a time.
MaxTimers == 2
\* Banners showWarning creates.
MaxBanners == 2
\* chrome.runtime messages sent.
MaxMsgs == 3

Fail == [ok |-> FALSE, error |-> "message"]

NewMessage(type, node) ==
    [type |-> type, node |-> node, pc |-> "sent", reply |-> "none",
     responses |-> <<>>, delivered |-> FALSE]

InitExt ==
    /\ config = [ipqsKey |-> FALSE, stalkKey |-> FALSE]
    /\ now = 0
    /\ cache = <<>>
    /\ calls = [c \in CallIds |-> FreeCall]
    /\ emails = [e \in EmailIds |-> IdleEmail]
    /\ last = NoResponse
    /\ log = <<>>
    /\ calc = IdleCalc
    /\ page = [doc |-> <<>>, created |-> 0,
               scanned |-> [n \in 1..MaxNodes |-> FALSE],
               timers |-> 0, banner |-> 0, banners |-> 0, removals |-> {},
               sent |-> [n \in 1..MaxNodes |-> 0],
               skipped |-> [n \in 1..MaxNodes |-> FALSE]]
    /\ msgs = <<>>

\* The observer's callback (lines 102-111) on a batch of mutation records
\* with added nodes: one setTimeout(scanVisibleEmail, 200).
observed(p) == [p EXCEPT !.timers = @ + 1]

\* The page renders a new email body node, before or after those in the
\* document.
PageAddsEmail(front) ==
    /\ page.created < MaxNodes
    /\ page.timers < MaxTimers
    /\ page' = observed([page EXCEPT
                  !.created = @ + 1,
                  !.doc = IF front THEN <<page.created + 1>> \o @
                          ELSE Append(@, page.created + 1)])
    /\ UNCHANGED <<msgs, config, now, cache, calls, emails, last, log, calc>>

\* The page takes an email body node out of the document: a mutation with
\* removed nodes only, for which the observer sets no timer.
PageRemovesEmail(n) ==
    /\ \E i \in DOMAIN page.doc : page.doc[i] = n
    /\ page' = [page EXCEPT !.doc = SelectSeq(@, LAMBDA x : x # n)]
    /\ UNCHANGED <<msgs, config, now, cache, calls, emails, last, log, calc>>

\* The page puts a node it had taken out back into the document.
PageReinsertsEmail(n) ==
    /\ n <= page.created
    /\ \A i \in DOMAIN page.doc : page.doc[i] # n
    /\ page.timers < MaxTimers
    /\ page' = observed([page EXCEPT !.doc = Append(@, n)])
    /\ UNCHANGED <<msgs, config, now, cache, calls, emails, last, log, calc>>

\* The page adds any other node.
PageAddsOther ==
    /\ page.created > 0
    /\ page.timers < MaxTimers
    /\ page' = observed(page)
    /\ UNCHANGED <<msgs, config, now, cache, calls, emails, last, log, calc>>

\* document.querySelector('.adn.ads'): the first in document order, 0 for null.
querySelector(p) == IF p.doc = <<>> THEN 0 ELSE p.doc[1]

\* A test that never finds the mark.
phishGuardScannedNever(p, node) == FALSE

\* emailBodyNode.dataset.phishGuardScanned
phishGuardScanned(p, node) == p.scanned[node]

\* A timer fires: scanVisibleEmail(), lines 68-99, as far as sendMessage.
ScanVisibleEmail ==
    /\ page.timers > 0
    /\ \E node \in {querySelector(page)} :
          IF node = 0
          THEN /\ page' = [page EXCEPT !.timers = @ - 1]
               /\ UNCHANGED msgs
          ELSE IF phishGuardScanned(page, node)
          THEN /\ page' = [page EXCEPT !.timers = @ - 1, !.skipped[node] = TRUE]
               /\ UNCHANGED msgs
          ELSE /\ Len(msgs) < MaxMsgs
               /\ page' = [page EXCEPT !.timers = @ - 1,
                                       !.scanned[node] = TRUE,
                                       !.sent[node] = @ + 1]
               /\ msgs' = Append(msgs, NewMessage("scan_email", node))
    /\ UNCHANGED <<config, now, cache, calls, emails, last, log, calc>>

\* function showWarning(verdict, score): the banner in the document is
\* removed; with a verdict a new banner is appended (a mutation with an
\* added node, which the observer sees) and its 3000 ms timer is set.
showWarning(p, verdict) ==
    IF verdict = ""
    THEN [p EXCEPT !.banner = 0]
    ELSE observed([p EXCEPT !.banner = p.banners + 1,
                            !.banners = @ + 1,
                            !.removals = @ \cup {p.banners + 1}])

\* The callback of sendMessage, lines 91-98, on the response delivered;
\* resp.data.verdict is undefined ("") in a reply that has none.
ScanCallback(i) ==
    /\ msgs[i].node # 0
    /\ msgs[i].responses # <<>>
    /\ ~msgs[i].delivered
    /\ msgs' = [msgs EXCEPT ![i].delivered = TRUE]
    /\ \E resp \in {msgs[i].responses[1]} :
          IF resp.ok
          THEN IF resp.data # "null"
               THEN \E verdict \in {IF resp.data = "error" THEN "" ELSE resp.data} :
                       /\ verdict # "" =>
                             page.banners < MaxBanners /\ page.timers < MaxTimers
                       /\ page' = showWarning(page, verdict)
               ELSE UNCHANGED page
          ELSE UNCHANGED page
    /\ UNCHANGED <<config, now, cache, calls, emails, last, log, calc>>

\* setTimeout(() => banner.remove(), 3000) fires for banner b.
BannerTimer(b) ==
    /\ b \in page.removals
    /\ page' = [page EXCEPT !.removals = @ \ {b},
                            !.banner = IF @ = b THEN 0 ELSE @]
    /\ UNCHANGED <<msgs, config, now, cache, calls, emails, last, log, calc>>

\* banner.onclick
BannerClick ==
    /\ page.banner # 0
    /\ page' = [page EXCEPT !.banner = 0]
    /\ UNCHANGED <<msgs, config, now, cache, calls, emails, last, log, calc>>

\* Another part of the extension sends a message.
SendOther(type) ==
    /\ Len(msgs) < MaxMsgs
    /\ msgs' = Append(msgs, NewMessage(type, 0))
    /\ UNCHANGED <<page, config, now, cache, calls, emails, last, log, calc>>

\* sendResponse(r), after which the chain of the message has ended.
respond(m, r) == [m EXCEPT !.responses = Append(@, r), !.pc = "done"]

\* A chain whose rejected fetch or r.json() no handler catches.
rejectedUncaught(m) == [m EXCEPT !.pc = "done"]

\* .catch(err => sendResponse({ ok: false, error: err.message })), lines 16, 33.
rejected(m) == respond(m, Fail)

\* The listener, lines 1-37, up to its return.
Listener(i) ==
    /\ msgs[i].pc = "sent"
    /\ msgs' = [msgs EXCEPT ![i].pc =
                  IF msgs[i].type \in {"scan_url", "scan_email"} THEN "storage"
                  ELSE "ignored"]
    /\ UNCHANGED <<page, config, now, cache, calls, emails, last, log, calc>>

\* chrome.storage.local.get(['backendUrl']) settles.  A rejection, and the
\* TypeError of .replace on a stored value that is no string (line 25),
\* reach the outer catch (lines 17, 34); otherwise fetch is called.
StorageSettles(i, ans) ==
    /\ msgs[i].pc = "storage"
    /\ msgs' = [msgs EXCEPT ![i] =
                  IF ans = "reject" \/ (ans = "number" /\ @.type = "scan_email")
                  THEN respond(@, Fail)
                  ELSE [@ EXCEPT !.pc = "fetch"]]
    /\ UNCHANGED <<page, config, now, cache, calls, emails, last, log, calc>>

\* fetch(...) settles.
FetchSettles(i, ok) ==
    /\ msgs[i].pc = "fetch"
    /\ msgs' = [msgs EXCEPT ![i] = IF ok THEN [@ EXCEPT !.pc = "json"] ELSE rejected(@)]
    /\ UNCHANGED <<page, config, now, cache, calls, emails, last, log, calc>>

\* r.json() settles: the reply parses, or it does not.
JsonSettles(i, ans) ==
    /\ msgs[i].pc = "json"
    /\ msgs' = [msgs EXCEPT ![i] =
                  IF ans = "reject" THEN rejected(@)
                  ELSE respond([@ EXCEPT !.reply = ans], [ok |-> TRUE, data |-> ans])]
    /\ UNCHANGED <<page, config, now, cache, calls, emails, last, log, calc>>

NextExt ==
    \/ \E front \in BOOLEAN : PageAddsEmail(front)
    \/ \E n \in 1..MaxNodes : PageRemovesEmail(n)
    \/ \E n \in 1..MaxNodes : PageReinsertsEmail(n)
    \/ PageAddsOther
    \/ ScanVisibleEmail
    \/ \E i \in DOMAIN msgs : ScanCallback(i)
    \/ \E b \in 1..MaxBanners : BannerTimer(b)
    \/ BannerClick
    \/ \E type \in {"scan_url", "other"} : SendOther(type)
    \/ \E i \in DOMAIN msgs : Listener(i)
    \/ \E i \in DOMAIN msgs, ans \in {"reject", "unset", "string", "number"} : StorageSettles(i, ans)
    \/ \E i \in DOMAIN msgs, ok \in BOOLEAN : FetchSettles(i, ok)
    \/ \E i \in DOMAIN msgs, ans \in {"reject", "null", "error", "safe", "malicious"} :
          JsonSettles(i, ans)

ExtSpec == InitExt /\ [][NextExt]_vars

\* C21: the content script sends at most one scan_email message for an
\* email body node, whatever the DOM mutations and the order of the
\* timers: neither the banner showWarning inserts, nor its removal, nor a
\* failed scan makes a node be scanned again.
C21_OneScanPerNode ==
    /\ "sent" \in DOMAIN page =>
          \A n \in 1..MaxNodes :
             /\ page.sent[n] <= 1
             /\ page.sent[n] = Cardinality({i \in DOMAIN msgs : msgs[i].node = n})
             /\ page.sent[n] = 1 <=> page.scanned[n]

\* A node whose scan failed, behind a node whose banner was shown and
\* removed again, was looked at by a later scanVisibleEmail and not scanned.
C21_Witness ==
    /\ "sent" \in DOMAIN page
    /\ \E i, j \in DOMAIN msgs :
          /\ msgs[i].node # 0 /\ msgs[i].delivered /\ ~msgs[i].responses[1].ok
          /\ page.skipped[msgs[i].node] /\ page.sent[msgs[i].node] = 1
          /\ msgs[j].node # 0 /\ msgs[j].delivered /\ msgs[j].responses[1].ok
          /\ page.skipped[msgs[j].node]
    /\ page.banners >= 1 /\ page.banner = 0

\* C22: for a scan_url or scan_email message the listener calls
\* sendResponse exactly once, when its chain has ended and not before:
\* with {ok: true, data} when the backend's reply parsed as JSON, else
\* with {ok: false, error}; a message of another type gets no response.
C22_RespondsOnce ==
    \A i \in DOMAIN msgs :
        /\ Len(msgs[i].responses) <= 1
        /\ msgs[i].pc = "done" =>
              /\ msgs[i].type \in {"scan_url", "scan_email"}
              /\ Len(msgs[i].responses) = 1
              /\ msgs[i].responses[1]
                    = IF msgs[i].reply # "none"
                      THEN [ok |-> TRUE, data |-> msgs[i].reply] ELSE Fail
        /\ msgs[i].pc # "done" => msgs[i].responses = <<>>
        /\ msgs[i].type \notin {"scan_url", "scan_email"} => msgs[i].pc \in {"sent", "ignored"}

C22_Witness ==
    /\ Len(msgs) = 3
    /\ \E i, j, k \in DOMAIN msgs :
          /\ msgs[i].type = "scan_email" /\ msgs[i].pc = "done" /\ msgs[i].responses[1].ok
          /\ msgs[j].type = "scan_url" /\ msgs[j].pc = "done" /\ ~msgs[j].responses[1].ok
          /\ msgs[k].type = "other" /\ msgs[k].pc = "ignored"
====
